---- MODULE Spec2Model ----
(***************************************************************************)
(* GraphCDN: the GraphQL caching handler of src/src/routes/graphql.ts and  *)
(* the header policy of src/src/utils.ts.                                  *)
(*                                                                         *)
(* Strings the code inspects are sequences of one-character strings, so    *)
(* that concatenation (authHeader + content) and normalisation are         *)
(* computed, not assumed.  A GraphQL document is written over the letters  *)
(*    "m"  the keyword `mutation` (only as first token)                    *)
(*    "u"  a field whose return type is the public type                    *)
(*    "v"  a field whose return type is the viewer (private) type          *)
(*    " "  insignificant white space                                       *)
(*    "!"  a character no GraphQL token starts with                        *)
(* Times are milliseconds (Date.now()); TTLs and ages are seconds.         *)
(***************************************************************************)
EXTENDS Integers, Sequences, FiniteSets, TLC

VARIABLES
    now,     \* Date.now(), in milliseconds
    store,   \* the QueryCache KV store: signature -> [value, metadata]
    h,       \* one handler frame (the locals of graphql()) per execution context
    nreq     \* number of requests received so far

vars == <<now, store, h, nreq>>

----------------------------------------------------------------------------
(* Bounds of the model *)

MaxTicks == 1
MaxRequests == 2
NumProcs == 2

Procs == 1..NumProcs

(* Configuration: DEFAULT_TTL (seconds) and PRIVATE_TYPES. *)
DefaultTtl == 2
defaultMaxAgeInSeconds == DefaultTtl
privateTypes == <<"Viewer">>

(* Request inputs: the authorization header, the `query` field of the    *)
(* body (<<>>: no such field) and its `variables`.                         *)
Request(authHeader, query, variables) ==
    [authHeader |-> authHeader, query |-> query, variables |-> variables]

Requests ==
    { Request(<<"u">>, <<>>, "x"),
      Request(<<"u">>, <<"!">>, "x"),
      Request(<<"u">>, <<"m", "v">>, "x"),
      Request(<<>>, <<"u">>, "x"),
      Request(<<"w">>, <<" ", "u">>, "y"),
      Request(<<"u">>, <<"v">>, "x"),
      Request(<<"w">>, <<"v">>, "x"),
      Request(<<>>, <<"u", "v">>, "x") }

----------------------------------------------------------------------------
(* enum Headers / enum CacheHitHeader: a header mapping is a record over   *)
(* the header names the handler touches; a field holding the value of      *)
(* NoHeaders is absent from the mapping.                                   *)

Directive(name, arg) == [name |-> name, arg |-> arg]

NoHeaders ==
    [contentType |-> "", date |-> -1, accessControlMaxAge |-> "",
     xCache |-> "", gcdnCache |-> "", cacheControl |-> <<>>, age |-> -1]

MISS == "MISS"
HIT == "HIT"
PASS == "PASS"
ERROR == "ERROR"

----------------------------------------------------------------------------
(* src/utils.ts *)

(* The /i flag of the regular expressions: the spelling of a directive     *)
(* name in lower case.                                                     *)
Lower(name) ==
    CASE name = "No-Store" -> "no-store"
      [] name = "No-Cache" -> "no-cache"
      [] OTHER -> name

RECURSIVE FirstMaxAge(_)
FirstMaxAge(header) ==
    IF header = <<>> THEN -1
    ELSE IF Head(header).name = "max-age" /\ Head(header).arg >= 0
         THEN Head(header).arg
         ELSE FirstMaxAge(Tail(header))

(* header.match(/max-age=(\d+)/): the first `max-age=` that digits follow  *)
(* (arg = -1 stands for an argument that is absent or not a number).       *)
parseMaxAge(header) == FirstMaxAge(header)

(* A policy that does not look at Cache-Control. *)
isResponseCachable_IgnoresCacheControl(res) ==
    IF res.status = 206 THEN FALSE
    ELSE IF \E i \in 1..Len(res.vary) : res.vary[i] = "*" THEN FALSE
    ELSE TRUE

isResponseCachable(res) ==
    IF res.status = 206 THEN FALSE
    ELSE IF \E i \in 1..Len(res.vary) : res.vary[i] = "*" THEN FALSE
    ELSE IF \E i \in 1..Len(res.cacheControl) :
                Lower(res.cacheControl[i].name) \in {"no-cache", "no-store"}
         THEN FALSE
    ELSE TRUE

isResponsePrivate(res) ==
    \E i \in 1..Len(res.cacheControl) : Lower(res.cacheControl[i].name) = "private"

----------------------------------------------------------------------------
(* The collaborators the handler imports: graphql's parse, ../graphql-utils *)
(* and worktop/crypto.                                                      *)

IsSpace(c) == c = " "

(* normalizeDocument: canonical formatting, here the text without its      *)
(* insignificant white space.                                              *)
normalizeDocument(query) == SelectSeq(query, LAMBDA c : ~IsSpace(c))

(* parse(query, {noLocation: true}) returns a document, or throws.         *)
ParseThrows(query) ==
    LET doc == normalizeDocument(query)
        fields == IF doc # <<>> /\ Head(doc) = "m" THEN Tail(doc) ELSE doc
    IN  \/ fields = <<>>
        \/ \E i \in 1..Len(fields) : fields[i] \notin {"u", "v"}

parse(query) == normalizeDocument(query)

isMutation(doc) == doc # <<>> /\ Head(doc) = "m"

(* The schema: the return type of each field. *)
TypeOf(field) == IF field = "v" THEN "Viewer" ELSE "Public"

hasIntersectedTypes(doc, types) ==
    \E i \in 1..Len(doc) : \E j \in 1..Len(types) :
        doc[i] # "m" /\ TypeOf(doc[i]) = types[j]

(* SHA256: a digest, taken to be collision free. *)
SHA256(text) == <<"sha256", text>>

----------------------------------------------------------------------------
(* The bodies the handler sends: one record shape for data and errors. *)

NoBody == [kind |-> "none", doc |-> <<>>, variables |-> "", viewer |-> <<>>, error |-> ""]

ErrorBody(msg) == [NoBody EXCEPT !.kind = "error", !.error = msg]

(* The origin resolves the forwarded body (query and variables) for the    *)
(* caller of the forwarded authorization header: data of a viewer-typed    *)
(* field belongs to that caller.                                           *)
OriginData(query, variables, authHeader) ==
    LET doc == normalizeDocument(query) IN
    [kind |-> "data", doc |-> doc, variables |-> variables,
     viewer |-> IF \E i \in 1..Len(doc) : doc[i] = "v" THEN authHeader ELSE <<>>,
     error |-> ""]

(* What the origin may answer: status, Vary, Cache-Control, Content-Type.  *)
OriginAnswer(status, vary, cc, ct) ==
    [failed |-> FALSE, status |-> status, vary |-> vary, cacheControl |-> cc, contentType |-> ct]

OriginAnswers ==
    { OriginAnswer(200, <<>>, <<>>, "application/json"),
      OriginAnswer(200, <<>>, <<Directive("public", -1), Directive("max-age", 0)>>,
                   "application/json; charset=utf-8"),
      OriginAnswer(200, <<>>, <<Directive("no-store", -1)>>, "application/json"),
      OriginAnswer(200, <<>>, <<Directive("No-Cache", -1), Directive("max-age", 1)>>,
                   "application/json"),
      OriginAnswer(200, <<"*">>, <<>>, "application/json"),
      OriginAnswer(206, <<>>, <<>>, "application/json"),
      OriginAnswer(200, <<>>, <<Directive("max-age", 1)>>, "text/plain") }

(* fetch() rejected: there is no response. *)
NoOrigin == [failed |-> TRUE, status |-> 0, vary |-> <<>>, cacheControl |-> <<>>, contentType |-> ""]

(* A test that takes any content type for JSON. *)
IncludesJson_AnyType(ct) == ct # ""

(* contentType?.includes('application/json') *)
IncludesJson(ct) == ct \in {"application/json", "application/json; charset=utf-8"}

----------------------------------------------------------------------------
(* src/routes/graphql.ts: the pieces of graphql() *)

(* { ...a, ...b }: the entries of b win. *)
Spread(a, b) == [f \in DOMAIN a |-> IF b[f] # NoHeaders[f] THEN b[f] ELSE a[f]]

Response(status, body, headers) == [status |-> status, body |-> body, headers |-> headers]

NoResponse == Response(0, NoBody, NoHeaders)

(* lines 35-41; toUTCString() names the second. *)
DefaultResponseHeaders(t) ==
    [NoHeaders EXCEPT !.contentType = "application/json", !.date = t \div 1000,
                      !.accessControlMaxAge = "300", !.xCache = MISS, !.gcdnCache = MISS]

(* lines 29-33: res.send(400, {error}) is given no headers. *)
NoQueryResponse ==
    Response(400, ErrorBody("Request has no \"query\" field."), NoHeaders)

(* An error path that reports a server error. *)
ClassifyErrorResponse_ServerError(defaults) ==
    Response(500, ErrorBody("error"),
             Spread(defaults, [NoHeaders EXCEPT !.gcdnCache = ERROR, !.xCache = HIT]))

(* lines 61-69 *)
ClassifyErrorResponse(defaults) ==
    Response(400, ErrorBody("error"),
             Spread(defaults, [NoHeaders EXCEPT !.gcdnCache = ERROR, !.xCache = HIT]))

(* line 72 *)
IsPrivateAndCacheable(isMutationRequest, hasPrivateTypes) ==
    isMutationRequest = FALSE /\ hasPrivateTypes

(* A key that scopes every query to the caller. *)
QuerySignature_AlwaysScoped(isMutationRequest, hasPrivateTypes, authHeader, content) ==
    IF isMutationRequest = FALSE THEN SHA256(authHeader \o content) ELSE <<>>

(* A key that leaves the authorization value out. *)
QuerySignature_Shared(isMutationRequest, hasPrivateTypes, authHeader, content) ==
    IF isMutationRequest = FALSE THEN SHA256(content) ELSE <<>>

(* lines 73-83 *)
QuerySignature(isMutationRequest, hasPrivateTypes, authHeader, content) ==
    IF IsPrivateAndCacheable(isMutationRequest, hasPrivateTypes)
    THEN SHA256(authHeader \o content)
    ELSE IF isMutationRequest = FALSE THEN SHA256(content)
    ELSE <<>>

(* Math.round(num / den): the nearest integer, halves upwards. *)
MathRound(num, den) == (2 * num + den) \div (2 * den)

(* An age that is not capped. *)
AgeHeader_Uncapped(t, metadata) == MathRound(t - metadata.createdAt, 1000)

(* lines 100-106 *)
AgeHeader(t, metadata) ==
    LET age == MathRound(t - metadata.createdAt, 1000)
    IN  IF age > metadata.expirationTtl THEN metadata.expirationTtl ELSE age

(* A hit that leaves the generic cache status at its default. *)
HitResponse_VendorOnly(value, metadata, defaults, t) ==
    LET merged == Spread(value.headers, defaults)
        aged == IF metadata.present
                THEN [merged EXCEPT !.age = AgeHeader(t, metadata)]
                ELSE merged
    IN  Response(200, value.body, [aged EXCEPT !.gcdnCache = HIT])

(* lines 92-113 *)
HitResponse(value, metadata, defaults, t) ==
    LET merged == Spread(value.headers, defaults)
        aged == IF metadata.present
                THEN [merged EXCEPT !.age = AgeHeader(t, metadata)]
                ELSE merged
    IN  Response(200, value.body, [aged EXCEPT !.gcdnCache = HIT, !.xCache = HIT])

(* A cacheability decision that only follows the origin's policy. *)
IsCacheable_PolicyOnly(isMutationRequest, response, isPrivateAndCacheable) ==
    isMutationRequest = FALSE /\ isResponseCachable(response)

(* A cacheability decision that forgets the operation kind. *)
IsCacheable_AnyOperation(isMutationRequest, response, isPrivateAndCacheable) ==
    isResponseCachable(response) \/ isPrivateAndCacheable

(* lines 126-128 *)
IsCacheable(isMutationRequest, response, isPrivateAndCacheable) ==
    (isMutationRequest = FALSE /\ isResponseCachable(response)) \/ isPrivateAndCacheable

(* A lifetime that takes max-age=0 for no max-age. *)
MaxAge_ZeroIsAbsent(maxAgeHeaderValue) ==
    IF maxAgeHeaderValue # <<>>
    THEN LET parsedMaxAge == parseMaxAge(maxAgeHeaderValue)
         IN  IF parsedMaxAge > 0 THEN parsedMaxAge ELSE defaultMaxAgeInSeconds
    ELSE defaultMaxAgeInSeconds

(* lines 138-142 *)
MaxAge(maxAgeHeaderValue) ==
    IF maxAgeHeaderValue # <<>>
    THEN LET parsedMaxAge == parseMaxAge(maxAgeHeaderValue)
         IN  IF parsedMaxAge > -1 THEN parsedMaxAge ELSE defaultMaxAgeInSeconds
    ELSE defaultMaxAgeInSeconds

(* lines 152-162 *)
CacheControl(isPrivateAndCacheable, maxAge) ==
    << Directive(IF isPrivateAndCacheable THEN "private" ELSE "public", -1),
       Directive("max-age", maxAge),
       Directive("stale-while-revalidate", maxAge) >>

(* lines 144-162: spreading a Response or a Headers object copies nothing  *)
(* (their properties are accessors), so the status is the default 200 and  *)
(* the headers are the default ones plus Cache-Control.                    *)
StoredResponse(results, defaults, isPrivateAndCacheable, maxAge) ==
    Response(200, results,
             [Spread(NoHeaders, defaults) EXCEPT
                 !.cacheControl = CacheControl(isPrivateAndCacheable, maxAge)])

(* A snapshot taken from the response after its cache status was set. *)
SerializableHeaders_AfterPass(res) == [res.headers EXCEPT !.gcdnCache = PASS]

(* lines 164-165: the header mapping copied out of the response. *)
SerializableHeaders(res) == res.headers

(* A handler that gives up when the write fails. *)
AfterSave_AbortOnFailure(res, result) ==
    IF result THEN [res EXCEPT !.headers.gcdnCache = PASS]
    ELSE Response(500, ErrorBody("query could not be stored in cache"), res.headers)

(* lines 176-182: whatever save returned, the response is served as PASS. *)
AfterSave(res, result) == [res EXCEPT !.headers.gcdnCache = PASS]

(* lines 186-193 *)
PassResponse(results, defaults) ==
    Response(200, results,
             Spread(Spread(NoHeaders, defaults), [NoHeaders EXCEPT !.gcdnCache = PASS]))

(* lines 197-206 *)
UnsupportedResponse(contentType, defaults) ==
    Response(415, [ErrorBody("Unsupported content-type") EXCEPT !.doc = <<contentType>>],
             Spread(defaults, [NoHeaders EXCEPT !.gcdnCache = PASS]))

----------------------------------------------------------------------------
(* ../stores/QueryCache: find and save on the KV store. *)

NoMetadata == [present |-> FALSE, createdAt |-> 0, expirationTtl |-> 0]

Metadata(t, ttl) == [present |-> TRUE, createdAt |-> t, expirationTtl |-> ttl]

Entry(headers, body) == [headers |-> headers, body |-> body]

find(key) ==
    IF key \in DOMAIN store THEN store[key]
    ELSE [found |-> FALSE, value |-> Entry(NoHeaders, NoBody), metadata |-> NoMetadata]

save(key, value, ttl) ==
    [k \in DOMAIN store \cup {key} |->
        IF k = key THEN [found |-> TRUE, value |-> value, metadata |-> Metadata(now, ttl)]
        ELSE store[k]]

----------------------------------------------------------------------------
(* The state machine: one frame of graphql() per execution context. *)

IdleFrame ==
    [pc |-> "idle", authHeader |-> <<>>, query |-> <<>>, variables |-> "",
     defaultResponseHeaders |-> NoHeaders, schema |-> FALSE,
     hasPrivateTypes |-> FALSE, isMutationRequest |-> FALSE, content |-> <<>>,
     querySignature |-> <<>>, found |-> FALSE, response |-> NoOrigin,
     isCacheable |-> FALSE, maxAge |-> 0, serializableHeaders |-> NoHeaders,
     saved |-> FALSE, res |-> NoResponse, threw |-> FALSE, calls |-> <<>>]

Init ==
    /\ now = 0
    /\ store = <<>>
    /\ h = [p \in Procs |-> IdleFrame]
    /\ nreq = 0

(* lines 26-43: the body is read, the query field is checked, the default  *)
(* headers are built and the query is parsed (outside the try block).      *)
Receive(p) ==
    /\ h[p].pc = "idle"
    /\ nreq < MaxRequests
    /\ nreq' = nreq + 1
    /\ \E req \in Requests :
          LET query == req.query
              f == [IdleFrame EXCEPT !.authHeader = req.authHeader, !.query = query,
                                     !.variables = req.variables]
          IN  h' = [h EXCEPT ![p] =
                IF query = <<>>
                THEN [f EXCEPT !.pc = "done", !.res = NoQueryResponse]
                ELSE IF ParseThrows(query)
                THEN [f EXCEPT !.pc = "done", !.threw = TRUE,
                               !.defaultResponseHeaders = DefaultResponseHeaders(now)]
                ELSE [f EXCEPT !.pc = "latest",
                               !.defaultResponseHeaders = DefaultResponseHeaders(now)]]
    /\ UNCHANGED <<now, store>>

(* A classification whose key covers the variables of the request. *)
Classify_KeyWithVariables(p) ==
    /\ h[p].pc = "latest"
    /\ \E outcome \in {"schema", "none", "throws"} :
          LET f == [h[p] EXCEPT !.calls = Append(@, "latest")]
              schema == outcome = "schema"
              hasPrivateTypes ==
                  IF schema /\ Len(privateTypes) > 0
                  THEN hasIntersectedTypes(parse(f.query), privateTypes)
                  ELSE FALSE
              content == normalizeDocument(f.query)
              isMutationRequest == isMutation(parse(f.query))
          IN  h' = [h EXCEPT ![p] =
                IF outcome = "throws"
                THEN [f EXCEPT !.pc = "done",
                               !.res = ClassifyErrorResponse(f.defaultResponseHeaders)]
                ELSE [f EXCEPT !.pc = IF isMutationRequest = FALSE THEN "find" ELSE "fetch",
                               !.schema = schema,
                               !.hasPrivateTypes = hasPrivateTypes,
                               !.content = content,
                               !.isMutationRequest = isMutationRequest,
                               !.querySignature =
                                   QuerySignature(isMutationRequest, hasPrivateTypes,
                                                  f.authHeader,
                                                  content \o <<f.variables>>)]]
    /\ UNCHANGED <<now, store, nreq>>

(* lines 48-83: await latest(), classification, the key. *)
Classify(p) ==
    /\ h[p].pc = "latest"
    /\ \E outcome \in {"schema", "none", "throws"} :
          LET f == [h[p] EXCEPT !.calls = Append(@, "latest")]
              schema == outcome = "schema"
              hasPrivateTypes ==
                  IF schema /\ Len(privateTypes) > 0
                  THEN hasIntersectedTypes(parse(f.query), privateTypes)
                  ELSE FALSE
              content == normalizeDocument(f.query)
              isMutationRequest == isMutation(parse(f.query))
          IN  h' = [h EXCEPT ![p] =
                IF outcome = "throws"
                THEN [f EXCEPT !.pc = "done",
                               !.res = ClassifyErrorResponse(f.defaultResponseHeaders)]
                ELSE [f EXCEPT !.pc = IF isMutationRequest = FALSE THEN "find" ELSE "fetch",
                               !.schema = schema,
                               !.hasPrivateTypes = hasPrivateTypes,
                               !.content = content,
                               !.isMutationRequest = isMutationRequest,
                               !.querySignature =
                                   QuerySignature(isMutationRequest, hasPrivateTypes,
                                                  f.authHeader, content)]]
    /\ UNCHANGED <<now, store, nreq>>

(* A lookup whose hit branch does not return. *)
Find_NoReturn(p) ==
    /\ h[p].pc = "find"
    /\ \E visible \in BOOLEAN :
          LET f == [h[p] EXCEPT !.calls = Append(@, "find")]
              got == find(f.querySignature)
          IN  h' = [h EXCEPT ![p] =
                IF got.found /\ visible
                THEN [f EXCEPT !.pc = "fetch", !.found = TRUE,
                               !.res = HitResponse(got.value, got.metadata,
                                                   f.defaultResponseHeaders, now)]
                ELSE [f EXCEPT !.pc = "fetch"]]
    /\ UNCHANGED <<now, store, nreq>>

(* lines 88-115: await find(querySignature); a replica may not hold (yet,  *)
(* or any more) what another one saved.                                    *)
Find(p) ==
    /\ h[p].pc = "find"
    /\ \E visible \in BOOLEAN :
          LET f == [h[p] EXCEPT !.calls = Append(@, "find")]
              got == find(f.querySignature)
          IN  h' = [h EXCEPT ![p] =
                IF got.found /\ visible
                THEN [f EXCEPT !.pc = "done", !.found = TRUE,
                               !.res = HitResponse(got.value, got.metadata,
                                                   f.defaultResponseHeaders, now)]
                ELSE [f EXCEPT !.pc = "fetch"]]
    /\ UNCHANGED <<now, store, nreq>>

(* lines 120-162 and 185-206: await fetch(origin), await response.json(). *)
Fetch(p) ==
    /\ h[p].pc = "fetch"
    /\ \E response \in OriginAnswers \cup {NoOrigin} :
          LET f == [h[p] EXCEPT !.calls = Append(@, "fetch"), !.response = response]
              isPrivateAndCacheable ==
                  IsPrivateAndCacheable(f.isMutationRequest, f.hasPrivateTypes)
              isCacheable ==
                  IsCacheable(f.isMutationRequest, response, isPrivateAndCacheable)
              results == OriginData(f.query, f.variables, f.authHeader)
              maxAge == MaxAge(response.cacheControl)
              res == StoredResponse(results, f.defaultResponseHeaders,
                                    isPrivateAndCacheable, maxAge)
          IN  h' = [h EXCEPT ![p] =
                IF response.failed
                THEN [f EXCEPT !.pc = "done", !.threw = TRUE]
                ELSE IF ~IncludesJson(response.contentType)
                THEN [f EXCEPT !.pc = "done", !.isCacheable = isCacheable,
                               !.res = UnsupportedResponse(response.contentType,
                                                           f.defaultResponseHeaders)]
                ELSE IF isCacheable
                THEN [f EXCEPT !.pc = "save", !.isCacheable = isCacheable,
                               !.maxAge = maxAge, !.res = res,
                               !.serializableHeaders = SerializableHeaders(res)]
                ELSE [f EXCEPT !.pc = "done", !.isCacheable = isCacheable,
                               !.res = PassResponse(results, f.defaultResponseHeaders)]]
    /\ UNCHANGED <<now, store, nreq>>

(* A write that leaves an entry already under the key in place. *)
Save_KeepExisting(p) ==
    /\ h[p].pc = "save"
    /\ \E result \in BOOLEAN :
          /\ store' = IF result /\ h[p].querySignature \notin DOMAIN store
                      THEN save(h[p].querySignature,
                                Entry(h[p].serializableHeaders, h[p].res.body),
                                h[p].maxAge)
                      ELSE store
          /\ h' = [h EXCEPT ![p] =
                     [@ EXCEPT !.pc = "done", !.calls = Append(@, "save"),
                               !.saved = result,
                               !.res = AfterSave(@, result)]]
    /\ UNCHANGED <<now, nreq>>

(* lines 167-182: await save(...); a failed write is only logged. *)
Save(p) ==
    /\ h[p].pc = "save"
    /\ \E result \in BOOLEAN :
          /\ store' = IF result
                      THEN save(h[p].querySignature,
                                Entry(h[p].serializableHeaders, h[p].res.body),
                                h[p].maxAge)
                      ELSE store
          /\ h' = [h EXCEPT ![p] =
                     [@ EXCEPT !.pc = "done", !.calls = Append(@, "save"),
                               !.saved = result,
                               !.res = AfterSave(@, result)]]
    /\ UNCHANGED <<now, nreq>>

(* The response has been returned (or the exception has left the handler): *)
(* the frame is gone.                                                      *)
Return(p) ==
    /\ h[p].pc = "done"
    /\ h' = [h EXCEPT ![p] = IdleFrame]
    /\ UNCHANGED <<now, store, nreq>>

(* The store drops an entry some time after its expirationTtl has passed. *)
Expire ==
    /\ \E key \in DOMAIN store :
          /\ now >= store[key].metadata.createdAt + 1000 * store[key].metadata.expirationTtl
          /\ store' = [k \in DOMAIN store \ {key} |-> store[k]]
    /\ UNCHANGED <<now, h, nreq>>

(* Time passes, half a second at a time. *)
Tick ==
    /\ now < 500 * MaxTicks
    /\ now' = now + 500
    /\ UNCHANGED <<store, h, nreq>>

Next ==
    \/ \E p \in Procs : Receive(p)
    \/ \E p \in Procs : Classify(p)
    \/ \E p \in Procs : Find(p)
    \/ \E p \in Procs : Fetch(p)
    \/ \E p \in Procs : Save(p)
    \/ \E p \in Procs : Return(p)
    \/ Expire
    \/ Tick

(* Any number of execution contexts up to NumProcs run at once. *)
Spec == Init /\ [][Next]_vars

(* One execution context: the requests are handled one after another. *)
SerialNext ==
    \/ Receive(1)
    \/ Classify(1)
    \/ Find(1)
    \/ Fetch(1)
    \/ Save(1)
    \/ Return(1)
    \/ Expire
    \/ Tick

SerialSpec == Init /\ [][SerialNext]_vars

----------------------------------------------------------------------------
(* Vocabulary of the properties *)

Done(p) == h[p].pc = "done"

Emitted(p) == Done(p) /\ ~h[p].threw

Called(p, call) == \E i \in 1..Len(h[p].calls) : h[p].calls[i] = call

Classified(p) ==
    \/ Called(p, "latest") /\ h[p].pc \in {"find", "fetch", "save"}
    \/ Called(p, "find")
    \/ Called(p, "fetch")

IdentityScoped(p) == Classified(p) /\ ~h[p].isMutationRequest /\ h[p].hasPrivateTypes

PublicQuery(p) == Classified(p) /\ ~h[p].isMutationRequest /\ ~h[p].hasPrivateTypes

SelectsPrivateType(query) ==
    ~ParseThrows(query) /\ hasIntersectedTypes(parse(query), privateTypes)

HasDirective(cc, name) == \E i \in 1..Len(cc) : cc[i].name = name

----------------------------------------------------------------------------
(* C1: a cache hit for a query that selects a private type is only served  *)
(* from an entry stored for the same authorization value, whatever the     *)
(* schema source returned: when the entry replayed answers the caller's    *)
(* query, its body is the caller's own data, not another identity's.       *)
C1_PrivateHitOwnData ==
    \A p \in Procs :
        (/\ Done(p) /\ h[p].found /\ SelectsPrivateType(h[p].query)
         /\ h[p].res.body.doc = normalizeDocument(h[p].query))
            => h[p].res.body.viewer = h[p].authHeader

(* C2: a request classified as a mutation never calls find or save, always *)
(* fetches the origin, and every response it emits carries gcdn-cache PASS. *)
C2_MutationExclusion ==
    \A p \in Procs :
        (Classified(p) /\ h[p].isMutationRequest) =>
            /\ ~Called(p, "find")
            /\ ~Called(p, "save")
            /\ h[p].pc \in {"fetch", "done"}
            /\ (Done(p) => Called(p, "fetch"))
            /\ (Emitted(p) => h[p].res.headers.gcdnCache = PASS)

C2_Witness ==
    \E p \in Procs :
        /\ Emitted(p) /\ h[p].isMutationRequest
        /\ h[p].res.status = 200 /\ h[p].res.headers.gcdnCache = PASS
        /\ isResponseCachable(h[p].response)
        /\ nreq = MaxRequests

(* C3: two non-mutation requests for the same query that touches a private *)
(* type, with different authorization values, have different cache keys:   *)
(* the key of an identity-scoped request is not the key of any request in  *)
(* flight, or of any other request for that query, under another           *)
(* authorization value, and no entry saved for another identity sits under *)
(* the key it uses for find and save.                                      *)
C3_DistinctKeysPerIdentity ==
    \A p \in Procs :
        IdentityScoped(p) =>
            /\ \A q \in Procs :
                  (IdentityScoped(q) /\ h[q].content = h[p].content
                                     /\ h[q].authHeader # h[p].authHeader)
                      => h[q].querySignature # h[p].querySignature
            /\ \A r \in Requests :
                  (normalizeDocument(r.query) = h[p].content
                       /\ r.authHeader # h[p].authHeader)
                      => QuerySignature(FALSE, TRUE, r.authHeader,
                                        normalizeDocument(r.query)) # h[p].querySignature
            /\ \A k \in DOMAIN store :
                  (/\ HasDirective(store[k].value.headers.cacheControl, "private")
                   /\ store[k].value.body.doc = h[p].content
                   /\ store[k].value.body.viewer # h[p].authHeader)
                      => k # h[p].querySignature

C3_Witness ==
    \E p \in Procs : \E k \in DOMAIN store :
        /\ IdentityScoped(p) /\ h[p].pc = "save"
        /\ HasDirective(store[k].value.headers.cacheControl, "private")
        /\ store[k].value.body.doc = h[p].content
        /\ store[k].value.body.viewer # h[p].authHeader
        /\ store[k].value.body.viewer # <<>> /\ h[p].authHeader # <<>>
        /\ k # h[p].querySignature

(* C4: on every cache hit whose entry has metadata, the Age header is the  *)
(* elapsed time in seconds, rounded to the nearest second, capped at the   *)
(* entry's expirationTtl; so Age <= expirationTtl however long ago the     *)
(* entry was stored.                                                       *)
NearestSecond(ms) ==
    CHOOSE n \in 0..(ms \div 1000 + 1) : 1000 * n - 500 <= ms /\ ms < 1000 * n + 500

C4_AgeIsCappedAtTtl ==
    [][\A p \in Procs :
          (h[p].pc = "find" /\ h'[p].pc = "done") =>
              LET m == store[h[p].querySignature].metadata
                  elapsed == NearestSecond(now - m.createdAt)
              IN  m.present =>
                    /\ h'[p].res.headers.age =
                          IF elapsed < m.expirationTtl THEN elapsed ELSE m.expirationTtl
                    /\ h'[p].res.headers.age <= m.expirationTtl]_vars

C4_Witness ==
    \E p \in Procs :
        /\ Done(p) /\ h[p].found
        /\ h[p].querySignature \in DOMAIN store
        /\ LET m == store[h[p].querySignature].metadata
           IN  /\ now - m.createdAt > 1000 * m.expirationTtl
               /\ h[p].res.headers.age = m.expirationTtl
               /\ NearestSecond(now - m.createdAt) > m.expirationTtl

(* C5: a public non-mutation query whose cacheable JSON answer is saved is *)
(* served PASS and stored under hash(normalizedQuery); a later identical   *)
(* request that finds the entry is answered with its body, HIT on both     *)
(* gcdn-cache and x-cache, without contacting the origin.                  *)
C5_PassThenHit ==
    [][\A p \in Procs :
          /\ (PublicQuery(p) /\ h[p].pc = "save" /\ h'[p].pc = "done" /\ h'[p].saved) =>
                LET key == SHA256(normalizeDocument(h[p].query))
                IN  /\ key \in DOMAIN store'
                    /\ store'[key].value.body = h'[p].res.body
                    /\ store'[key].metadata.expirationTtl = h[p].maxAge
                    /\ h'[p].res.status = 200
                    /\ h'[p].res.headers.gcdnCache = PASS
                    /\ h'[p].res.body = OriginData(h[p].query, h[p].variables, h[p].authHeader)
          /\ (PublicQuery(p) /\ h[p].pc = "find" /\ h'[p].pc = "done") =>
                LET key == SHA256(normalizeDocument(h[p].query))
                IN  /\ key \in DOMAIN store
                    /\ h'[p].res.status = 200
                    /\ h'[p].res.body = store[key].value.body
                    /\ h'[p].res.headers.gcdnCache = HIT
                    /\ h'[p].res.headers.xCache = HIT
                    /\ ~Called(p, "fetch")'
          /\ (PublicQuery(p) /\ h[p].pc = "find" /\ h'[p].pc = "fetch") =>
                ~h'[p].found]_vars

C5_Witness ==
    \E p \in Procs :
        /\ Emitted(p) /\ PublicQuery(p) /\ h[p].found /\ nreq = 2
        /\ h[p].calls = <<"latest", "find">>
        /\ h[p].res.headers.gcdnCache = HIT /\ h[p].res.headers.xCache = HIT
        /\ h[p].res.body.doc = normalizeDocument(h[p].query)
        /\ h[p].querySignature \in DOMAIN store
        /\ now < store[h[p].querySignature].metadata.createdAt
                   + 1000 * store[h[p].querySignature].metadata.expirationTtl

(* C6: a non-mutation query that touches no private type and is answered   *)
(* with Cache-Control: no-store is served PASS without any save; an entry  *)
(* appears under a key only through the save of a request whose answer was *)
(* not no-store or that was identity-scoped, so identical requests that    *)
(* keep being answered no-store keep missing.                              *)
C6_NoStoreNeverStored ==
    [][/\ \A p \in Procs :
            (/\ PublicQuery(p) /\ h[p].pc = "fetch"
             /\ HasDirective(h'[p].response.cacheControl, "no-store")
             /\ IncludesJson(h'[p].response.contentType)) =>
                /\ h'[p].pc = "done" /\ ~h'[p].threw
                /\ h'[p].res.status = 200
                /\ h'[p].res.headers.gcdnCache = PASS
                /\ h'[p].res.body = OriginData(h[p].query, h[p].variables, h[p].authHeader)
                /\ h'[p].calls = <<"latest", "find", "fetch">>
                /\ store' = store
       /\ \A k \in DOMAIN store' :
            (k \notin DOMAIN store \/ store'[k] # store[k]) =>
                \E p \in Procs :
                    /\ h[p].pc = "save" /\ h'[p].saved /\ h[p].querySignature = k
                    /\ (HasDirective(h[p].response.cacheControl, "no-store")
                          => IdentityScoped(p))]_vars

C6_Witness ==
    \E p \in Procs :
        /\ Emitted(p) /\ PublicQuery(p) /\ nreq = 2
        /\ h[p].response.cacheControl = <<Directive("no-store", -1)>>
        /\ h[p].calls = <<"latest", "find", "fetch">>
        /\ h[p].res.headers.gcdnCache = PASS
        /\ h[p].querySignature \notin DOMAIN store

(* C7: a request whose query text is malformed GraphQL ends with status    *)
(* 400 and gcdn-cache ERROR, without lookup, origin fetch or store.        *)
C7_MalformedQueryIs400 ==
    \A p \in Procs :
        (Done(p) /\ h[p].query # <<>> /\ ParseThrows(h[p].query)) =>
            /\ ~h[p].threw
            /\ h[p].res.status = 400
            /\ h[p].res.headers.gcdnCache = ERROR
            /\ ~Called(p, "find") /\ ~Called(p, "fetch") /\ ~Called(p, "save")

(* C8: a request whose body has no query field ends with status 400, the   *)
(* error body 'Request has no "query" field.' and cache-status ERROR,      *)
(* without schema retrieval, lookup, origin fetch or store.                *)
C8_NoQueryIs400Error ==
    \A p \in Procs :
        (Done(p) /\ h[p].query = <<>>) =>
            /\ h[p].res.status = 400
            /\ h[p].res.body = ErrorBody("Request has no \"query\" field.")
            /\ h[p].res.headers.gcdnCache = ERROR
            /\ h[p].calls = <<>>

(* C9: whenever the origin was fetched and its content type is not JSON,   *)
(* the request ends with status 415 and gcdn-cache PASS and save is not    *)
(* called: for mutations, public queries and identity-scoped queries.      *)
C9_NonJsonIs415 ==
    \A p \in Procs :
        (/\ Done(p) /\ Called(p, "fetch") /\ ~h[p].response.failed
         /\ h[p].response.contentType \notin
                {"application/json", "application/json; charset=utf-8"}) =>
            /\ ~h[p].threw
            /\ h[p].res.status = 415
            /\ h[p].res.body.kind = "error"
            /\ h[p].res.headers.gcdnCache = PASS
            /\ ~Called(p, "save")

C9_Witness ==
    \E p \in Procs :
        /\ Emitted(p) /\ IdentityScoped(p) /\ h[p].isCacheable
        /\ h[p].response.contentType = "text/plain"
        /\ h[p].res.status = 415
        /\ h[p].querySignature \notin DOMAIN store

(* C10: when save returns false the request is not aborted: the response   *)
(* computed from the origin is returned with status 200, gcdn-cache PASS   *)
(* and the body and Cache-Control it has when save succeeds; only the      *)
(* store is left as it was.                                                *)
C10_SaveFailureIsNotFatal ==
    [][\A p \in Procs :
          (h[p].pc = "save" /\ h'[p].pc = "done") =>
              /\ ~h'[p].threw
              /\ h'[p].res = [h[p].res EXCEPT !.headers.gcdnCache = PASS]
              /\ h'[p].res.status = 200
              /\ h'[p].res.body = OriginData(h[p].query, h[p].variables, h[p].authHeader)
              /\ h'[p].res.headers.cacheControl =
                     CacheControl(IdentityScoped(p), h[p].maxAge)
              /\ (~h'[p].saved => store' = store)
              /\ (h'[p].saved => h[p].querySignature \in DOMAIN store')]_vars

C10_Witness ==
    \E p \in Procs :
        /\ Emitted(p) /\ Called(p, "save") /\ ~h[p].saved
        /\ h[p].res.status = 200 /\ h[p].res.headers.gcdnCache = PASS
        /\ h[p].res.body.kind = "data"
        /\ h[p].querySignature \notin DOMAIN store

(* C11: the entry passed to save is a snapshot of the body and the header  *)
(* mapping taken at store time: setting gcdn-cache to PASS on the live     *)
(* response afterwards does not change the stored entry, no later step of  *)
(* a handler alters it, and a find that returns it replays that body and   *)
(* that mapping (under the fresh default headers).                         *)
C11_StoredSnapshot ==
    [][/\ \A p \in Procs :
            (h[p].pc = "save" /\ h'[p].pc = "done" /\ h'[p].saved) =>
                LET stored == store'[h[p].querySignature].value
                IN  /\ stored.body = h[p].res.body
                    /\ stored.headers = h[p].res.headers
                    /\ stored.headers.gcdnCache = MISS
                    /\ h'[p].res.headers.gcdnCache = PASS
                    /\ stored.headers = [h'[p].res.headers EXCEPT !.gcdnCache = MISS]
       /\ \A p \in Procs :
            (h[p].pc = "find" /\ h'[p].pc = "done") =>
                LET stored == store[h[p].querySignature].value
                IN  /\ h'[p].res.body = stored.body
                    /\ h'[p].res.headers.cacheControl = stored.headers.cacheControl
                    /\ store' = store
       /\ \A k \in DOMAIN store \cap DOMAIN store' :
            store'[k] # store[k] =>
                \E p \in Procs : h[p].pc = "save" /\ h[p].querySignature = k
                                    /\ h'[p].saved]_vars

C11_Witness ==
    \E p \in Procs :
        /\ Emitted(p) /\ h[p].saved /\ h[p].querySignature \in DOMAIN store
        /\ h[p].res.headers.gcdnCache = PASS
        /\ store[h[p].querySignature].value.headers.gcdnCache = MISS
        /\ store[h[p].querySignature].value.body = h[p].res.body
        /\ store[h[p].querySignature].value.headers.cacheControl
               = h[p].res.headers.cacheControl

(* C12: the key is a function of the operation kind, the privacy           *)
(* classification, the normalized query and the identity token alone: a    *)
(* private non-mutation has hash(token + normalized query), a public       *)
(* non-mutation has hash(normalized query) whatever the token, a mutation  *)
(* has no key, and an absent credential counts as the empty token.         *)
C12_KeyDerivation ==
    \A p \in Procs :
        Classified(p) =>
            /\ IdentityScoped(p) =>
                  h[p].querySignature
                      = <<"sha256", h[p].authHeader \o normalizeDocument(h[p].query)>>
            /\ PublicQuery(p) =>
                  /\ h[p].querySignature = <<"sha256", normalizeDocument(h[p].query)>>
                  /\ \A r \in Requests :
                        normalizeDocument(r.query) = h[p].content
                            => QuerySignature(FALSE, FALSE, r.authHeader,
                                              normalizeDocument(r.query))
                                   = h[p].querySignature
            /\ h[p].isMutationRequest => h[p].querySignature = <<>>

C12_Witness ==
    \E p \in Procs : \E k \in DOMAIN store :
        /\ PublicQuery(p) /\ h[p].authHeader # <<>> /\ h[p].query # h[p].content
        /\ h[p].querySignature = <<"sha256", h[p].content>>
        /\ HasDirective(store[k].value.headers.cacheControl, "private")
        /\ store[k].value.body.viewer = <<>>
        /\ k = <<"sha256", store[k].value.body.doc>>

(* C13: after an origin fetch that returned JSON, save is called exactly   *)
(* when the request is not a mutation and the origin's response is         *)
(* cacheable (not status 206, no `*` in Vary, no no-cache or no-store in   *)
(* Cache-Control), or the request touches a private type and is not a      *)
(* mutation: an identity-scoped response is stored even under no-store.    *)
C13_OriginAllows(response) ==
    /\ response.status # 206
    /\ \A i \in 1..Len(response.vary) : response.vary[i] # "*"
    /\ \A i \in 1..Len(response.cacheControl) :
          response.cacheControl[i].name
              \notin {"no-cache", "no-store", "No-Cache", "No-Store"}

C13_StoreEligible(p) ==
    \/ ~h[p].isMutationRequest /\ C13_OriginAllows(h[p].response)
    \/ h[p].hasPrivateTypes /\ ~h[p].isMutationRequest

C13_SaveExactlyWhenEligible ==
    \A p \in Procs :
        (/\ Called(p, "fetch") /\ ~h[p].response.failed
         /\ IncludesJson(h[p].response.contentType))
            => /\ h[p].pc \in {"save", "done"}
               /\ (h[p].pc = "save" => C13_StoreEligible(p))
               /\ (Done(p) => (Called(p, "save") <=> C13_StoreEligible(p)))

C13_Witness ==
    \E p \in Procs :
        /\ Emitted(p) /\ IdentityScoped(p) /\ Called(p, "save") /\ h[p].saved
        /\ HasDirective(h[p].response.cacheControl, "no-store")
        /\ h[p].querySignature \in DOMAIN store
        /\ store[h[p].querySignature].value.body = h[p].res.body

(* C14: on every store-eligible miss maxAge is the origin's max-age when   *)
(* Cache-Control carries one that parses and the default TTL otherwise;    *)
(* that one value is the ttl passed to save and the max-age and the        *)
(* stale-while-revalidate of the Cache-Control emitted and stored, whose   *)
(* visibility is private exactly when the request is identity-scoped.      *)
C14_OriginMaxAge(cc) ==
    LET at == {i \in 1..Len(cc) : cc[i].name = "max-age" /\ cc[i].arg >= 0}
    IN  IF at = {} THEN DefaultTtl
        ELSE cc[CHOOSE i \in at : \A j \in at : i <= j].arg

C14_CacheControl(p, maxAge) ==
    << [name |-> IF h[p].hasPrivateTypes /\ ~h[p].isMutationRequest
                 THEN "private" ELSE "public", arg |-> -1],
       [name |-> "max-age", arg |-> maxAge],
       [name |-> "stale-while-revalidate", arg |-> maxAge] >>

C14_OneMaxAge ==
    [][\A p \in Procs :
          /\ (h[p].pc = "fetch" /\ h'[p].pc = "save") =>
                LET maxAge == C14_OriginMaxAge(h'[p].response.cacheControl)
                IN  /\ h'[p].maxAge = maxAge
                    /\ h'[p].res.headers.cacheControl = C14_CacheControl(p, maxAge)
                    /\ h'[p].serializableHeaders.cacheControl
                           = C14_CacheControl(p, maxAge)
          /\ (h[p].pc = "save" /\ h'[p].pc = "done") =>
                LET maxAge == C14_OriginMaxAge(h[p].response.cacheControl)
                IN  /\ h'[p].res.headers.cacheControl = C14_CacheControl(p, maxAge)
                    /\ h'[p].saved =>
                          /\ store'[h[p].querySignature].metadata.expirationTtl = maxAge
                          /\ store'[h[p].querySignature].value.headers.cacheControl
                                 = C14_CacheControl(p, maxAge)]_vars

C14_Witness ==
    \E p \in Procs :
        /\ Emitted(p) /\ IdentityScoped(p) /\ h[p].saved
        /\ h[p].response.cacheControl = <<Directive("public", -1), Directive("max-age", 0)>>
        /\ h[p].querySignature \in DOMAIN store
        /\ store[h[p].querySignature].metadata.expirationTtl = 0
        /\ h[p].res.headers.cacheControl
               = <<Directive("private", -1), Directive("max-age", 0),
                   Directive("stale-while-revalidate", 0)>>

(* C15: requests for the same cold key are not serialised: both may find   *)
(* nothing, both fetch and both save under that key.  In every             *)
(* interleaving a step of one request leaves the other's frame alone, each *)
(* request ends with its own response (PASS with its own data, or HIT with *)
(* the stored body if it looked up after a save), and a save leaves under  *)
(* the key the entry of the request that made it: the last save wins.      *)
C15_LastSaveWins ==
    [][\A p \in Procs :
          /\ (h[p].pc = "save" /\ h'[p].pc = "done" /\ h'[p].saved) =>
                /\ store'[h[p].querySignature]
                       = [found |-> TRUE,
                          value |-> [headers |-> h[p].res.headers, body |-> h[p].res.body],
                          metadata |-> [present |-> TRUE, createdAt |-> now,
                                        expirationTtl |-> h[p].maxAge]]
                /\ \A k \in DOMAIN store \ {h[p].querySignature} :
                      k \in DOMAIN store' /\ store'[k] = store[k]
          /\ (h[p].pc \in {"find", "save"} /\ h'[p].pc = "done") =>
                /\ h'[p].res.headers.gcdnCache \in {PASS, HIT}
                /\ h'[p].res.headers.gcdnCache = HIT
                       <=> (h[p].pc = "find" /\ h[p].querySignature \in DOMAIN store)
                /\ h'[p].res.headers.gcdnCache = HIT
                       => h'[p].res.body = store[h[p].querySignature].value.body
                /\ h'[p].res.headers.gcdnCache = PASS
                       => h'[p].res.body
                              = OriginData(h[p].query, h[p].variables, h[p].authHeader)
          /\ \A q \in Procs \ {p} : h'[p] # h[p] => h'[q] = h[q]]_vars

C15_Witness ==
    \E p \in Procs : \E q \in Procs \ {p} :
        /\ Emitted(p) /\ Emitted(q)
        /\ h[p].calls = <<"latest", "find", "fetch", "save">> /\ h[p].saved
        /\ h[q].calls = <<"latest", "find", "fetch", "save">> /\ h[q].saved
        /\ h[p].querySignature = h[q].querySignature
        /\ h[p].res.headers.gcdnCache = PASS /\ h[q].res.headers.gcdnCache = PASS
        /\ h[p].res.body # h[q].res.body
        /\ h[p].querySignature \in DOMAIN store
        /\ store[h[p].querySignature].value.body = h[q].res.body

(* C16: a request makes at most one schema retrieval, one find, one origin *)
(* fetch and one save, in that order; it fetches the origin only as a      *)
(* mutation or after a find that returned no entry, saves only after its   *)
(* own fetch, and on a hit neither fetches nor saves.                      *)
C16_Rank(call) ==
    CASE call = "latest" -> 1 [] call = "find" -> 2
      [] call = "fetch" -> 3 [] call = "save" -> 4

C16_CallOrder ==
    \A p \in Procs :
        /\ \A i, j \in 1..Len(h[p].calls) :
              i < j => C16_Rank(h[p].calls[i]) < C16_Rank(h[p].calls[j])
        /\ Called(p, "fetch") =>
              \/ h[p].isMutationRequest /\ ~Called(p, "find")
              \/ Called(p, "find") /\ ~h[p].found
        /\ Called(p, "save") => Called(p, "fetch")
        /\ Called(p, "find") => Called(p, "latest")
        /\ h[p].found =>
              /\ Called(p, "find") /\ ~Called(p, "fetch") /\ ~Called(p, "save")
              /\ Done(p)

C16_Witness ==
    \E p \in Procs :
        /\ Emitted(p) /\ h[p].calls = <<"latest", "find", "fetch", "save">>
        /\ ~h[p].found /\ h[p].res.headers.gcdnCache = PASS
        /\ h[p].querySignature \in DOMAIN store
        /\ store[h[p].querySignature].metadata.createdAt < now

(* C17: when the schema retrieval or the classification fails, the request *)
(* ends with status 400 and gcdn-cache ERROR, and makes no lookup, no      *)
(* origin fetch and no store.                                              *)
C17_ClassificationFailure ==
    [][\A p \in Procs :
          (h[p].pc = "latest" /\ h'[p].pc = "done") =>
              /\ h'[p].res.status = 400
              /\ h'[p].res.headers.gcdnCache = ERROR
              /\ h'[p].res.body.kind = "error"
              /\ ~h'[p].threw
              /\ h'[p].calls = <<"latest">>
              /\ store' = store]_vars

C17_Witness ==
    \E p \in Procs :
        /\ Emitted(p) /\ h[p].calls = <<"latest">>
        /\ h[p].res.status = 400 /\ h[p].res.headers.gcdnCache = ERROR
        /\ <<"sha256", normalizeDocument(h[p].query)>> \in DOMAIN store

(* C18: the key is made of the normalized query text and, for an           *)
(* identity-scoped request, the authorization value, and of nothing else:  *)
(* the variables of the request are not part of it, so a request is served *)
(* on a hit the body stored under its key, also when that body was         *)
(* computed for other variables.                                           *)
C18_VariablesNotInKey ==
    [][\A p \in Procs :
          /\ (Classified(p) /\ ~h[p].isMutationRequest) =>
                /\ h[p].querySignature
                       \in { <<"sha256", normalizeDocument(h[p].query)>>,
                             <<"sha256", h[p].authHeader \o normalizeDocument(h[p].query)>> }
                /\ \A r \in Requests :
                      (r.authHeader = h[p].authHeader /\ r.query = h[p].query)
                          => QuerySignature(FALSE, h[p].hasPrivateTypes, r.authHeader,
                                            normalizeDocument(r.query))
                                 = h[p].querySignature
          /\ (h[p].pc = "find" /\ h'[p].pc = "done") =>
                h'[p].res.body = store[h[p].querySignature].value.body]_vars

C18_Witness ==
    \E p \in Procs :
        /\ Emitted(p) /\ h[p].found /\ h[p].res.headers.gcdnCache = HIT
        /\ h[p].res.body.doc = h[p].content
        /\ h[p].res.body.variables # h[p].variables

(* C19: in every response emitted with cache-status headers, x-cache is    *)
(* HIT exactly when the response was produced from a cached entry, that is *)
(* exactly when gcdn-cache is HIT, and MISS on every other path (stored,   *)
(* pass-through, 415 and 400 error responses); gcdn-cache is never left at *)
(* its initial MISS.                                                       *)
C19_CacheStatusAgree ==
    \A p \in Procs :
        (Emitted(p) /\ h[p].res.headers.gcdnCache # "") =>
            /\ h[p].res.headers.xCache \in {HIT, MISS}
            /\ h[p].res.headers.xCache = HIT <=> h[p].found
            /\ h[p].res.headers.xCache = HIT <=> h[p].res.headers.gcdnCache = HIT
            /\ h[p].res.headers.gcdnCache # MISS

(* C20: the key material of identity-scoped requests is unambiguous: two   *)
(* private non-mutation requests have the same key only if their           *)
(* authorization values are equal and their normalized queries are equal,  *)
(* and the key of an identity-scoped request with a non-empty token is not *)
(* the key of any public request.                                          *)
C20_KeyMaterialUnambiguous ==
    \A p \in Procs :
        IdentityScoped(p) =>
            \A r \in Requests :
                (~ParseThrows(r.query) /\ ~isMutation(parse(r.query))) =>
                    /\ (/\ SelectsPrivateType(r.query)
                        /\ QuerySignature(FALSE, TRUE, r.authHeader,
                                          normalizeDocument(r.query))
                               = h[p].querySignature)
                           => /\ r.authHeader = h[p].authHeader
                              /\ normalizeDocument(r.query) = h[p].content
                    /\ h[p].authHeader # <<>>
                           => QuerySignature(FALSE, FALSE, r.authHeader,
                                             normalizeDocument(r.query))
                                  # h[p].querySignature

====
